---- MODULE Spec2Model ----
(***************************************************************************)
(* A model of ev/config.py: the recursive dictionary merge, the            *)
(* environment resolver and the memoising configuration loader.            *)
(*                                                                         *)
(* Python values are tagged records, so that a value of any type can be    *)
(* compared with any other.  A dict is a TLA+ function from its keys.      *)
(***************************************************************************)
EXTENDS Integers, Sequences, FiniteSets, TLC

VARIABLES
  _env_var,   \* the module global _env_var
  environ,    \* os.environ: a function from the names that are set
  files,      \* the file system: a function from the files that exist
  _configs,   \* the module global _configs: key -> id of a Config object
  heap,       \* the Config objects built so far: id -> the object's dict
  last,       \* the last call of the module's API and what it gave
  returned,   \* history: <<key, id>> of every get_config call that returned
  writes,     \* how many times the file system was changed from outside
  mrg,        \* a bare _merge_dicts call: its arguments and its outcome
  thr,        \* threads inside get_config: their positions and locals
  ref         \* a bare _merge_dicts call on dicts held by reference

vars == <<_env_var, environ, files, _configs, heap, last, returned, writes, mrg, thr, ref>>

-----------------------------------------------------------------------------
(* Bounds *)

\* Config objects allocated in one run.
MaxObjs == 2

\* Changes made to the file system from outside in one run.
MaxWrites == 1

\* Key/value pairs, over all nesting levels, of a dict given to a bare merge.
MaxSize == 3

\* Threads that call get_config at the same time.
NumThreads == 2

-----------------------------------------------------------------------------
(* Python and JSON values *)

PyNone == [kind |-> "None"]
PyStr(s) == [kind |-> "str", val |-> s]
Num(n) == [kind |-> "number", val |-> n]
Bool(b) == [kind |-> "bool", val |-> b]
Lst(s) == [kind |-> "list", val |-> s]
Map(f) == [kind |-> "map", val |-> f]

\* isinstance(v, Mapping)
IsMapping(v) == v.kind = "map"

\* bool(v) of an argument that is None or a string
Truthy(v) == v.kind = "str" /\ v.val # ""

\* d.get(k, default)
DictGet(d, k, default) == IF k \in DOMAIN d THEN d[k] ELSE default

-----------------------------------------------------------------------------
(* _merge_dicts: d1 after the call.  Each key of d2 is handled on its own, *)
(* reading and writing d1[k] alone, so the order of d2.items() is free.    *)

\* Mutant: dict.update, the nested dicts replaced and never merged
_merge_dicts_shallow(d1, d2) ==
  [k \in DOMAIN d1 \cup DOMAIN d2 |-> IF k \in DOMAIN d2 THEN d2[k] ELSE d1[k]]

RECURSIVE _merge_dicts_keeps(_, _)
\* Mutant: a value of d1 that is no dict is kept (setdefault for update)
_merge_dicts_keeps(d1, d2) ==
  [k \in DOMAIN d1 \cup DOMAIN d2 |->
     IF k \in DOMAIN d2
     THEN LET v1 == DictGet(d1, k, PyNone)
              v2 == d2[k]
          IN IF IsMapping(v1) /\ IsMapping(v2)
             THEN Map(_merge_dicts_keeps(v1.val, v2.val))
             ELSE IF k \in DOMAIN d1 THEN v1 ELSE v2
     ELSE d1[k]]

RECURSIVE _merge_dicts_drops(_, _)
\* Mutant: the keys of d1 that d2 lacks are lost
_merge_dicts_drops(d1, d2) ==
  [k \in DOMAIN d2 |->
     LET v1 == DictGet(d1, k, PyNone)
         v2 == d2[k]
     IN IF IsMapping(v1) /\ IsMapping(v2)
        THEN Map(_merge_dicts_drops(v1.val, v2.val))
        ELSE v2]

RECURSIVE _merge_dicts(_, _)
_merge_dicts(d1, d2) ==
  [k \in DOMAIN d1 \cup DOMAIN d2 |->
     IF k \in DOMAIN d2
     THEN LET v1 == DictGet(d1, k, PyNone)
              v2 == d2[k]
          IN IF IsMapping(v1) /\ IsMapping(v2)
             THEN Map(_merge_dicts(v1.val, v2.val))
             ELSE v2
     ELSE d1[k]]

-----------------------------------------------------------------------------
(* The environment resolver *)

get_env_varname == _env_var

\* Mutant: os.environ.get(_env_var) or 'dev'
get_env_or_dev ==
  IF DictGet(environ, _env_var, "") = "" THEN "dev" ELSE environ[_env_var]

get_env == DictGet(environ, _env_var, "dev")

-----------------------------------------------------------------------------
(* Files and the Config constructor *)

Invalid == [kind |-> "invalid"]

\* Mutant: a missing file reads as an empty object
_load_file_lenient(f) ==
  IF f \notin DOMAIN files THEN [status |-> "ok", value |-> Map(<<>>)]
  ELSE IF files[f] = Invalid THEN [status |-> "ValueError", value |-> PyNone]
  ELSE [status |-> "ok", value |-> files[f]]

\* codecs.open + json.load: the decoded value, or the exception raised
_load_file(f) ==
  IF f \notin DOMAIN files THEN [status |-> "IOError", value |-> PyNone]
  ELSE IF files[f] = Invalid THEN [status |-> "ValueError", value |-> PyNone]
  ELSE [status |-> "ok", value |-> files[f]]

\* The loop of Config.__init__ over the remaining files fs: self is the dict
\* so far, opened the files opened so far.  d2.items() raises AttributeError
\* when the decoded value is no dict.
RECURSIVE ConfigLoop(_, _, _)
ConfigLoop(self, fs, opened) ==
  IF fs = <<>> THEN [status |-> "ok", self |-> self, opened |-> opened]
  ELSE LET r == _load_file(Head(fs))
           op2 == Append(opened, Head(fs))
       IN IF r.status # "ok"
          THEN [status |-> r.status, self |-> self, opened |-> op2]
          ELSE IF ~IsMapping(r.value)
          THEN [status |-> "AttributeError", self |-> self, opened |-> op2]
          ELSE ConfigLoop(_merge_dicts(self, r.value.val), Tail(fs), op2)

\* Mutant: the files are loaded last first
Config_reversed(fs) ==
  ConfigLoop(<<>>, [i \in 1..Len(fs) |-> fs[Len(fs) + 1 - i]], <<>>)

\* Config(*files) with file names, as get_config calls it (two strings, no
\* keyword arguments, so never the dict.__init__ branch): starts from the
\* empty dict
Config(fs) == ConfigLoop(<<>>, fs, <<>>)

-----------------------------------------------------------------------------
(* get_config *)

ResolveEnv(env) == IF Truthy(env) THEN env.val ELSE get_env

ResolvePublic(env, public_file) ==
  IF Truthy(public_file) THEN public_file.val
  ELSE "config_public_" \o ResolveEnv(env) \o ".json"

ResolvePrivate(private_file) ==
  IF Truthy(private_file) THEN private_file.val ELSE "config_private.json"

ResolveKey(env, public_file, private_file) ==
  <<ResolvePublic(env, public_file), ResolvePrivate(private_file)>>

\* "not config" for config = _configs.get(key): no entry, or an empty dict
NotConfig(key) == key \notin DOMAIN _configs \/ heap[_configs[key]] = <<>>

\* Mutant: every entry of the cache is bound to the new object
Store_all(key, id) == [k \in DOMAIN _configs \cup {key} |-> id]

\* Mutant: _configs = {key: config}, the other entries lost
Store_only(key, id) == key :> id

\* _configs after "_configs[key] = config", config being the object id
Store(key, id) == (key :> id) @@ _configs

NoCall == [op |-> "none", args |-> <<>>, key |-> <<>>, status |-> "none",
           ret |-> 0, value |-> "", opened |-> <<>>]

get_config(env, public_file, private_file) ==
  LET key == ResolveKey(env, public_file, private_file)
      call == [NoCall EXCEPT !.op = "get_config",
                             !.args = <<env, public_file, private_file>>,
                             !.key = key]
  IN IF NotConfig(key)
     THEN LET c == Config(key)
          IN IF c.status = "ok"
             THEN /\ Len(heap) < MaxObjs
                  /\ heap' = Append(heap, c.self)
                  /\ _configs' = Store(key, Len(heap) + 1)
                  /\ last' = [call EXCEPT !.status = "ok", !.ret = Len(heap) + 1,
                                          !.opened = c.opened]
                  /\ returned' = returned \cup {<<key, Len(heap) + 1>>}
                  /\ UNCHANGED <<_env_var, environ, files, writes, mrg, thr, ref>>
             ELSE /\ last' = [call EXCEPT !.status = c.status, !.opened = c.opened]
                  /\ UNCHANGED <<_env_var, environ, files, _configs, heap,
                                 returned, writes, mrg, thr, ref>>
     ELSE /\ last' = [call EXCEPT !.status = "ok", !.ret = _configs[key]]
          /\ returned' = returned \cup {<<key, _configs[key]>>}
          /\ UNCHANGED <<_env_var, environ, files, _configs, heap, writes, mrg, thr, ref>>

\* Mutant: no "global _env_var", the assignment binds a local name
set_env_varname_local(env_var) ==
  /\ _env_var' = _env_var
  /\ last' = [NoCall EXCEPT !.op = "set_env_varname", !.args = <<env_var>>]
  /\ UNCHANGED <<environ, files, _configs, heap, returned, writes, mrg, thr, ref>>

set_env_varname(env_var) ==
  /\ _env_var' = env_var
  /\ last' = [NoCall EXCEPT !.op = "set_env_varname", !.args = <<env_var>>]
  /\ UNCHANGED <<environ, files, _configs, heap, returned, writes, mrg, thr, ref>>

Call_get_env_varname ==
  /\ last' = [NoCall EXCEPT !.op = "get_env_varname", !.value = get_env_varname]
  /\ UNCHANGED <<_env_var, environ, files, _configs, heap, returned, writes, mrg, thr, ref>>

Call_get_env ==
  /\ last' = [NoCall EXCEPT !.op = "get_env", !.value = get_env]
  /\ UNCHANGED <<_env_var, environ, files, _configs, heap, returned, writes, mrg, thr, ref>>

-----------------------------------------------------------------------------
(* The world outside: files are written and removed between calls *)

WriteFile(f, doc) ==
  /\ writes < MaxWrites
  /\ DictGet(files, f, PyNone) # doc
  /\ files' = (f :> doc) @@ files
  /\ writes' = writes + 1
  /\ UNCHANGED <<_env_var, environ, _configs, heap, last, returned, mrg, thr, ref>>

RemoveFile(f) ==
  /\ writes < MaxWrites
  /\ f \in DOMAIN files
  /\ files' = [g \in DOMAIN files \ {f} |-> files[g]]
  /\ writes' = writes + 1
  /\ UNCHANGED <<_env_var, environ, _configs, heap, last, returned, mrg, thr, ref>>

-----------------------------------------------------------------------------
(* Inputs *)

VarNames == {"EV_ENV", "APP_ENV"}
EnvValues == {"", "prod"}
Environs == UNION {[S -> EnvValues] : S \in SUBSET VarNames}

EnvArgs == {PyNone, PyStr(""), PyStr("prod")}
PublicArgs == {PyNone, PyStr("a.json")}
PrivateArgs == {PyNone, PyStr("b.json")}

PublicNames == {"config_public_dev.json", "a.json"}
EnvPublicNames == PublicNames \cup {"config_public_.json", "config_public_prod.json"}
PrivateNames == {"config_private.json", "b.json"}

EmptyDoc == Map(<<>>)
PublicDoc == Map([k \in {"db", "debug"} |->
                   IF k = "db"
                   THEN Map([j \in {"host", "port"} |->
                              IF j = "host" THEN PyStr("h1") ELSE Num(5432)])
                   ELSE Bool(FALSE)])
PrivateDoc == Map([k \in {"db"} |-> Map([j \in {"host"} |-> PyStr("h2")])])
ListDoc == Lst(<<>>)

PublicContents == {Invalid, ListDoc, EmptyDoc, PublicDoc}
PrivateContents == {Invalid, ListDoc, EmptyDoc, PrivateDoc}

\* Every public file starts with one content (or none exists), every private
\* file likewise.
FilesWith(pubs, p, q) ==
  [f \in (IF p = PyNone THEN {} ELSE pubs)
         \cup (IF q = PyNone THEN {} ELSE PrivateNames) |->
     IF f \in pubs THEN p ELSE q]

Threads == 1..NumThreads

\* A thread outside get_config; config and self are object ids, 0 for None
Idle == [pc |-> "idle", key |-> <<>>, config |-> 0, self |-> 0, status |-> "none"]

\* stored: the <<key, object id>> of each "_configs[key] = config", in order
NoThreads == [t |-> [i \in Threads |-> Idle], stored |-> <<>>]

\* No dict held by reference: mem is the memory, address -> dict, before the
\* call and after it; d1 and d2 are the addresses of the arguments
NoRef == [before |-> <<>>, mem |-> <<>>, d1 |-> 0, d2 |-> 0, done |-> FALSE]

NoMerge == [d1 |-> <<>>, d2 |-> <<>>, out |-> <<>>, done |-> FALSE]

\* The dicts given to a bare merge: nested dicts over two keys and two
\* values that are no dicts, of at most MaxSize key/value pairs in all.
MergeKeys == {"a", "b"}
MergeLeaves == {PyStr("x"), Lst(<<>>)}

RECURSIVE Size(_)
Size(m) ==
  IF DOMAIN m = {} THEN 0
  ELSE LET k == CHOOSE j \in DOMAIN m : TRUE
       IN 1 + (IF IsMapping(m[k]) THEN Size(m[k].val) ELSE 0)
            + Size([j \in DOMAIN m \ {k} |-> m[j]])

\* One more level of nesting over the dicts D, the size kept in bounds
Nest(D) ==
  LET V == MergeLeaves \cup {Map(m) : m \in {d \in D : Size(d) < MaxSize}}
  IN {m \in UNION {[S -> V] : S \in SUBSET MergeKeys} : Size(m) <= MaxSize}

Dicts1 == Nest({<<>>})
Dicts2 == Nest(Dicts1)
Dicts3 == Nest(Dicts2)
Dicts4 == Nest(Dicts3)

\* A dict of n pairs nests at most n deep: enough levels for MaxSize <= 5
MergeDicts == Nest(Dicts4)

-----------------------------------------------------------------------------
(* The loader and its cache, the environment unset, the files changing *)

Init ==
  /\ _env_var = "EV_ENV"
  /\ environ = <<>>
  /\ \E p \in {PyNone, EmptyDoc, PublicDoc} :
       \E q \in {PyNone, EmptyDoc, PrivateDoc} : files = FilesWith(PublicNames, p, q)
  /\ _configs = <<>>
  /\ heap = <<>>
  /\ last = NoCall
  /\ returned = {}
  /\ writes = 0
  /\ mrg = NoMerge
  /\ thr = NoThreads
  /\ ref = NoRef

Calls(envs) ==
  \/ \E env \in envs, public_file \in PublicArgs, private_file \in PrivateArgs :
       get_config(env, public_file, private_file)
  \/ \E env_var \in VarNames : set_env_varname(env_var)
  \/ Call_get_env_varname
  \/ Call_get_env

Next ==
  \/ Calls({PyNone})
  \/ \E f \in PublicNames, doc \in PublicContents : WriteFile(f, doc)
  \/ \E f \in PrivateNames, doc \in PrivateContents : WriteFile(f, doc)
  \/ \E f \in PublicNames \cup PrivateNames : RemoveFile(f)

Spec == Init /\ [][Next]_vars

-----------------------------------------------------------------------------
(* The resolution of the environment and of the file names, the files fixed *)

InitEnv ==
  /\ _env_var = "EV_ENV"
  /\ environ \in Environs
  /\ \E p \in {PyNone, PublicDoc} : files = FilesWith(EnvPublicNames, p, PrivateDoc)
  /\ _configs = <<>>
  /\ heap = <<>>
  /\ last = NoCall
  /\ returned = {}
  /\ writes = 0
  /\ mrg = NoMerge
  /\ thr = NoThreads
  /\ ref = NoRef

\* Besides the calls above, get_config with the empty string as public_file
NextEnv ==
  \/ Calls(EnvArgs)
  \/ \E env \in EnvArgs, private_file \in PrivateArgs :
       get_config(env, PyStr(""), private_file)

SpecEnv == InitEnv /\ [][NextEnv]_vars

-----------------------------------------------------------------------------
(* A bare _merge_dicts(d1, d2) call on every pair of bounded dicts *)

InitMerge ==
  /\ _env_var = "EV_ENV"
  /\ environ = <<>>
  /\ files = <<>>
  /\ _configs = <<>>
  /\ heap = <<>>
  /\ last = NoCall
  /\ returned = {}
  /\ writes = 0
  /\ mrg \in [d1 : MergeDicts, d2 : MergeDicts, out : {<<>>}, done : {FALSE}]
  /\ thr = NoThreads
  /\ ref = NoRef

Merge ==
  /\ ~mrg.done
  /\ mrg' = [mrg EXCEPT !.out = _merge_dicts(mrg.d1, mrg.d2), !.done = TRUE]
  /\ UNCHANGED <<_env_var, environ, files, _configs, heap, last, returned, writes,
                 thr, ref>>

NextMerge == Merge

SpecMerge == InitMerge /\ [][NextMerge]_vars

-----------------------------------------------------------------------------
(* _merge_dicts on dicts held by reference.  mem maps an address to a dict; *)
(* a value that is a dict is [kind |-> "map", addr |-> its address], so     *)
(* "d1[k] = v2" makes d1 share v2 with d2.  The arguments are trees that    *)
(* share nothing, as json.load and Config.__init__ build them; on such, the *)
(* keys of d2 are handled independently and the order of d2.items() is free.*)

Ref(a) == [kind |-> "map", addr |-> a]

RECURSIVE Alloc(_, _)
RECURSIVE AllocItems(_, _, _, _)

\* mem with the dict d laid out in new cells, its root at Len(mem) + 1
Alloc(mem, d) == AllocItems(Append(mem, <<>>), Len(mem) + 1, d, DOMAIN d)

AllocItems(mem, at, d, ks) ==
  IF ks = {} THEN mem
  ELSE LET k == CHOOSE j \in ks : TRUE
           m1 == IF IsMapping(d[k]) THEN Alloc(mem, d[k].val) ELSE mem
           v == IF IsMapping(d[k]) THEN Ref(Len(mem) + 1) ELSE d[k]
       IN AllocItems([m1 EXCEPT ![at] = (k :> v) @@ m1[at]], at, d, ks \ {k})

\* The dict at address a, read through the references
RECURSIVE Deref(_, _)
Deref(mem, a) ==
  [k \in DOMAIN mem[a] |->
     IF IsMapping(mem[a][k]) THEN Map(Deref(mem, mem[a][k].addr)) ELSE mem[a][k]]

\* The addresses of the dict at a and of the dicts nested in it
RECURSIVE Reach(_, _)
Reach(mem, a) ==
  {a} \cup UNION {Reach(mem, mem[a][k].addr) :
                    k \in {j \in DOMAIN mem[a] : IsMapping(mem[a][j])}}

RECURSIVE _merge_dicts_in_place(_, _, _)
RECURSIVE MergeItems(_, _, _, _)

\* Mutant: the recursive call has its arguments swapped, _merge_dicts(v2, v1)
RECURSIVE MergeItems_swapped(_, _, _, _)
MergeItems_swapped(mem, d1, d2, ks) ==
  IF ks = {} THEN mem
  ELSE LET k == CHOOSE j \in ks : TRUE
           v1 == DictGet(mem[d1], k, PyNone)
           v2 == mem[d2][k]
       IN MergeItems_swapped(
            IF IsMapping(v1) /\ IsMapping(v2)
            THEN _merge_dicts_in_place(mem, v2.addr, v1.addr)
            ELSE [mem EXCEPT ![d1] = (k :> v2) @@ mem[d1]],
            d1, d2, ks \ {k})

\* The loop "for k, v2 in d2.items()" over the keys ks still to come
MergeItems(mem, d1, d2, ks) ==
  IF ks = {} THEN mem
  ELSE LET k == CHOOSE j \in ks : TRUE
           v1 == DictGet(mem[d1], k, PyNone)
           v2 == mem[d2][k]
       IN MergeItems(
            IF IsMapping(v1) /\ IsMapping(v2)
            THEN _merge_dicts_in_place(mem, v1.addr, v2.addr)
            ELSE [mem EXCEPT ![d1] = (k :> v2) @@ mem[d1]],
            d1, d2, ks \ {k})

\* The memory after _merge_dicts(d1, d2), d1 and d2 addresses
_merge_dicts_in_place(mem, d1, d2) == MergeItems(mem, d1, d2, DOMAIN mem[d2])

\* The memory holding the trees a and b, and their addresses
Loaded(a, b) ==
  LET m1 == Alloc(<<>>, a)
      m2 == Alloc(m1, b)
  IN [before |-> m2, mem |-> m2, d1 |-> 1, d2 |-> Len(m1) + 1, done |-> FALSE]

InitMergeRef ==
  /\ _env_var = "EV_ENV"
  /\ environ = <<>>
  /\ files = <<>>
  /\ _configs = <<>>
  /\ heap = <<>>
  /\ last = NoCall
  /\ returned = {}
  /\ writes = 0
  /\ mrg \in [d1 : MergeDicts, d2 : MergeDicts, out : {<<>>}, done : {FALSE}]
  /\ thr = NoThreads
  /\ ref = Loaded(mrg.d1, mrg.d2)

MergeRef ==
  /\ ~ref.done
  /\ ref' = [ref EXCEPT !.mem = _merge_dicts_in_place(ref.mem, ref.d1, ref.d2),
                        !.done = TRUE]
  /\ UNCHANGED <<_env_var, environ, files, _configs, heap, last, returned, writes,
                 mrg, thr>>

NextMergeRef == MergeRef

SpecMergeRef == InitMergeRef /\ [][NextMergeRef]_vars

-----------------------------------------------------------------------------
(* Threads inside get_config.  Nothing in get_config takes a lock, so the   *)
(* threads interleave between its statements; a thread's position is the    *)
(* statement it runs next.  The files do not change here.                   *)

\* Mutant: "_configs[key] = config" runs on the new object before its files
\* are loaded
StepAfter_published_first(pc) ==
  CASE pc = "new" -> "store"
    [] pc = "store" -> "load1"
    [] pc = "load1" -> "load2"
    [] pc = "load2" -> "ret"

\* The statement after pc on the path of a miss: Config(*key) allocates the
\* object, loads and merges the two files, and only then is it stored
StepAfter(pc) ==
  CASE pc = "new" -> "load1"
    [] pc = "load1" -> "load2"
    [] pc = "load2" -> "store"
    [] pc = "store" -> "ret"

Local(t) == thr.t[t]

SetLocal(t, r) == [thr EXCEPT !.t[t] = r]

ThreadFrame ==
  UNCHANGED <<_env_var, environ, files, last, returned, writes, mrg, ref>>

\* The call: the key is resolved
T_call(t, public_file, private_file) ==
  /\ Local(t).pc = "idle"
  /\ thr' = SetLocal(t, [Idle EXCEPT !.pc = "get",
                         !.key = ResolveKey(PyNone, public_file, private_file)])
  /\ UNCHANGED <<_configs, heap>>
  /\ ThreadFrame

\* config = _configs.get(key)
T_get(t) ==
  /\ Local(t).pc = "get"
  /\ thr' = SetLocal(t, [Local(t) EXCEPT !.pc = "test",
                         !.config = DictGet(_configs, Local(t).key, 0)])
  /\ UNCHANGED <<_configs, heap>>
  /\ ThreadFrame

\* if not config
T_test(t) ==
  /\ Local(t).pc = "test"
  /\ thr' = SetLocal(t, [Local(t) EXCEPT !.pc =
             IF Local(t).config = 0 \/ heap[Local(t).config] = <<>>
             THEN "new" ELSE "ret"])
  /\ UNCHANGED <<_configs, heap>>
  /\ ThreadFrame

\* Config(*key): a new object, dict.__init__(self) leaves it empty
T_new(t) ==
  /\ Local(t).pc = "new"
  /\ heap' = Append(heap, <<>>)
  /\ thr' = SetLocal(t, [Local(t) EXCEPT !.pc = StepAfter("new"),
                         !.self = Len(heap) + 1, !.config = Len(heap) + 1])
  /\ UNCHANGED _configs
  /\ ThreadFrame

\* One round of "for f in files: _merge_dicts(self, _load_file(f))"; an
\* exception ends the call
T_load(t) ==
  /\ Local(t).pc \in {"load1", "load2"}
  /\ LET f == Local(t).key[IF Local(t).pc = "load1" THEN 1 ELSE 2]
         r == _load_file(f)
     IN IF r.status # "ok"
        THEN /\ thr' = SetLocal(t, [Local(t) EXCEPT !.pc = "done",
                                    !.status = r.status])
             /\ UNCHANGED heap
        ELSE IF ~IsMapping(r.value)
        THEN /\ thr' = SetLocal(t, [Local(t) EXCEPT !.pc = "done",
                                    !.status = "AttributeError"])
             /\ UNCHANGED heap
        ELSE /\ heap' = [heap EXCEPT ![Local(t).self] =
                           _merge_dicts(heap[Local(t).self], r.value.val)]
             /\ thr' = SetLocal(t, [Local(t) EXCEPT !.pc = StepAfter(Local(t).pc)])
  /\ UNCHANGED _configs
  /\ ThreadFrame

\* _configs[key] = config
T_store(t) ==
  /\ Local(t).pc = "store"
  /\ _configs' = Store(Local(t).key, Local(t).config)
  /\ thr' = [SetLocal(t, [Local(t) EXCEPT !.pc = StepAfter("store")])
               EXCEPT !.stored = Append(thr.stored,
                                        <<Local(t).key, Local(t).config>>)]
  /\ UNCHANGED heap
  /\ ThreadFrame

\* return config
T_return(t) ==
  /\ Local(t).pc = "ret"
  /\ thr' = SetLocal(t, [Local(t) EXCEPT !.pc = "done", !.status = "ok"])
  /\ UNCHANGED <<_configs, heap>>
  /\ ThreadFrame

InitThreads ==
  /\ _env_var = "EV_ENV"
  /\ environ = <<>>
  /\ \E p \in {EmptyDoc, PublicDoc} :
       \E q \in {PyNone, ListDoc, EmptyDoc, PrivateDoc} :
         files = FilesWith(PublicNames, p, q)
  /\ _configs = <<>>
  /\ heap = <<>>
  /\ last = NoCall
  /\ returned = {}
  /\ writes = 0
  /\ mrg = NoMerge
  /\ thr = NoThreads
  /\ ref = NoRef

NextThreads ==
  \E t \in Threads :
    \/ \E public_file \in PublicArgs : T_call(t, public_file, PyNone)
    \/ T_get(t)
    \/ T_test(t)
    \/ T_new(t)
    \/ T_load(t)
    \/ T_store(t)
    \/ T_return(t)

SpecThreads == InitThreads /\ [][NextThreads]_vars

-----------------------------------------------------------------------------
(* Properties *)

\* A step that is a get_config call (a call that changes nothing, not even
\* what the last call gave, is a stuttering step)
GetConfigStep == last' # last /\ last'.op = "get_config"

Errors == {"IOError", "ValueError", "AttributeError"}

\* C1: any two get_config calls that returned and resolved to the same
\* (public_file, private_file) pair returned the same Config object.
C1_SameKeySameObject ==
  \A p \in returned, q \in returned : p[1] = q[1] => p[2] = q[2]

\* C2: once the cache holds an entry for a key, a get_config call resolving
\* to that key opens no file and returns that entry, the cache unchanged.
C2_CachedNeverReread ==
  [][(GetConfigStep /\ last'.key \in DOMAIN _configs)
       => /\ last'.opened = <<>>
          /\ last'.status = "ok"
          /\ last'.ret = _configs[last'.key]
          /\ _configs' = _configs
          /\ heap' = heap]_vars

\* The file is missing or holds no valid JSON
BadFile(f) == f \notin DOMAIN files \/ files[f] = Invalid

\* C3: when a file that get_config loads is missing or invalid the call
\* raises, a call that raises leaves the cache and the objects as they were,
\* and the next get_config call for that key opens the files again, the
\* public one first.
C3_FailureNotCached ==
  [][GetConfigStep
       => /\ (NotConfig(last'.key)
               /\ (BadFile(last'.key[1]) \/ BadFile(last'.key[2])))
              => last'.status \in Errors
          /\ last'.status # "ok"
              => (_configs' = _configs /\ heap' = heap /\ returned' = returned)
          /\ (last.op = "get_config" /\ last.status # "ok"
               /\ last'.key = last.key)
              => (last'.opened # <<>> /\ Head(last'.opened) = last'.key[1])]_vars

\* C3 witness: a call failed on a missing or invalid file while the cache
\* held an entry.
C3_Witness ==
  /\ last.op = "get_config"
  /\ last.status \in {"IOError", "ValueError"}
  /\ DOMAIN _configs # {}

\* o is a with b deep-merged onto it, said key by key
RECURSIVE IsDeepMerge(_, _, _)
IsDeepMerge(a, b, o) ==
  /\ DOMAIN o = DOMAIN a \cup DOMAIN b
  /\ \A k \in DOMAIN o :
       IF k \notin DOMAIN b THEN o[k] = a[k]
       ELSE IF k \in DOMAIN a /\ IsMapping(a[k]) /\ IsMapping(b[k])
       THEN IsMapping(o[k]) /\ IsDeepMerge(a[k].val, b[k].val, o[k].val)
       ELSE o[k] = b[k]

MergedDoc == Map([k \in {"db", "debug"} |->
                   IF k = "db"
                   THEN Map([j \in {"host", "port"} |->
                              IF j = "host" THEN PyStr("h2") ELSE Num(5432)])
                   ELSE Bool(FALSE)])

\* C4: a get_config call that finds no entry for its key and returns has
\* opened the public file and then the private one, and returns (and caches)
\* an object that is the public file's object with the private file's object
\* deep-merged onto it; for the documents of the specification's scenario
\* that is {db: {host: h2, port: 5432}, debug: false}.
C4_MissReturnsDeepMerge ==
  [][(GetConfigStep /\ last'.key \notin DOMAIN _configs /\ last'.status = "ok")
       => LET pub == last'.key[1]
              priv == last'.key[2]
              o == heap'[last'.ret]
          IN /\ last'.opened = <<pub, priv>>
             /\ _configs'[last'.key] = last'.ret
             /\ IsDeepMerge(files[pub].val, files[priv].val, o)
             /\ (files[pub] = PublicDoc /\ files[priv] = PrivateDoc)
                 => o = MergedDoc.val]_vars

\* C4 witness: a call loaded the scenario's two documents.
C4_Witness ==
  /\ last.op = "get_config"
  /\ last.status = "ok"
  /\ Len(last.opened) = 2
  /\ heap[last.ret] = MergedDoc.val

\* Wherever the recursion of a merge of b into a, giving o, meets a key that
\* holds a dict in both, o holds there a dict with every key of a's that b's
\* lacks, its value kept, and with every key of b's.
RECURSIVE NestedKept(_, _, _)
NestedKept(a, b, o) ==
  \A k \in DOMAIN a \cap DOMAIN b :
    (IsMapping(a[k]) /\ IsMapping(b[k]))
      => /\ k \in DOMAIN o
         /\ IsMapping(o[k])
         /\ \A j \in DOMAIN a[k].val \ DOMAIN b[k].val :
              j \in DOMAIN o[k].val /\ o[k].val[j] = a[k].val[j]
         /\ DOMAIN b[k].val \subseteq DOMAIN o[k].val
         /\ NestedKept(a[k].val, b[k].val, o[k].val)

\* C5: after merge(A, B), for every key k holding a dict in both A and B, at
\* any depth the recursion reaches, A[k] holds every key of A's dict at k
\* that B[k] lacks, with its value, and every key of B[k].
C5_NestedKeysKept == mrg.done => NestedKept(mrg.d1, mrg.d2, mrg.out)

\* C5 witness: a merge met a key holding in both a dict, A's with a key that
\* B's lacks and B's with a key that A's lacks.
C5_Witness ==
  /\ mrg.done
  /\ \E k \in DOMAIN mrg.d1 \cap DOMAIN mrg.d2 :
       /\ IsMapping(mrg.d1[k]) /\ IsMapping(mrg.d2[k])
       /\ DOMAIN mrg.d1[k].val \ DOMAIN mrg.d2[k].val # {}
       /\ DOMAIN mrg.d2[k].val \ DOMAIN mrg.d1[k].val # {}

\* C6: after merge(A, B), for every key k of B that A lacks or that holds in
\* A or in B something that is no dict, A[k] is B[k].
C6_OverwriteExact ==
  mrg.done
    => \A k \in DOMAIN mrg.d2 :
         (k \notin DOMAIN mrg.d1
            \/ ~IsMapping(mrg.d1[k]) \/ ~IsMapping(mrg.d2[k]))
           => (k \in DOMAIN mrg.out /\ mrg.out[k] = mrg.d2[k])

\* C6 witness: a merge overwrote a value that was no dict with a dict, and
\* the other way round.
C6_Witness ==
  /\ mrg.done
  /\ \E k \in DOMAIN mrg.d1 \cap DOMAIN mrg.d2 :
       ~IsMapping(mrg.d1[k]) /\ IsMapping(mrg.d2[k])
  /\ \E k \in DOMAIN mrg.d1 \cap DOMAIN mrg.d2 :
       IsMapping(mrg.d1[k]) /\ ~IsMapping(mrg.d2[k])

\* C7: merging the empty dict into A leaves A as it was.
C7_EmptySourceNoChange == (mrg.done /\ mrg.d2 = <<>>) => mrg.out = mrg.d1

\* C7 witness: the empty dict was merged into a dict that nests a dict.
C7_Witness ==
  /\ mrg.done
  /\ mrg.d2 = <<>>
  /\ \E k \in DOMAIN mrg.d1 : IsMapping(mrg.d1[k]) /\ mrg.d1[k].val # <<>>

C9_DevWhenEmptyOrUnset ==
  (last.op = "get_env" /\ DictGet(environ, _env_var, "") = "")
    => last.value = "dev"

\* C10: with public_file not supplied get_config resolves the public file to
\* "config_public_" + env + ".json", env being the env argument when one is
\* supplied and get_env() otherwise; with private_file not supplied it
\* resolves the private file to "config_private.json"; and get_config() with
\* EV_ENV unset loads config_public_dev.json and config_private.json.
C10_DefaultFileNames ==
  last.op = "get_config"
    => LET env == last.args[1]
           public_file == last.args[2]
           private_file == last.args[3]
       IN /\ public_file = PyNone
              => last.key[1] = "config_public_"
                                 \o (IF env # PyNone THEN env.val ELSE get_env)
                                 \o ".json"
          /\ private_file = PyNone => last.key[2] = "config_private.json"
          /\ (last.args = <<PyNone, PyNone, PyNone>> /\ _env_var = "EV_ENV"
               /\ "EV_ENV" \notin DOMAIN environ)
              => /\ last.key = <<"config_public_dev.json", "config_private.json">>
                 /\ last.opened # <<>> => Head(last.opened) = "config_public_dev.json"

\* A step that is a call of op
CallStep(op) == last' # last /\ last'.op = op

\* C11: the setting is "EV_ENV" at the start and changes only in a
\* set_env_varname call; after set_env_varname(n) it is n; get_env_varname()
\* returns the setting; and get_env() reads the variable the setting names.
\* So get_env_varname() returns "EV_ENV" before any set_env_varname call and
\* the n of the latest one after, and get_env() reads the variable of that
\* name.
C11_SettingFollowsLastSet ==
  /\ _env_var = "EV_ENV"
  /\ [][/\ CallStep("set_env_varname") => _env_var' = last'.args[1]
        /\ _env_var' # _env_var => CallStep("set_env_varname")
        /\ CallStep("get_env_varname") => last'.value = _env_var
        /\ CallStep("get_env")
            => last'.value = (IF _env_var \in DOMAIN environ
                              THEN environ[_env_var] ELSE "dev")]_vars

\* C11 witness: after set_env_varname("APP_ENV"), get_env() returned the
\* value of APP_ENV, which EV_ENV does not have.
C11_Witness ==
  /\ last.op = "get_env"
  /\ _env_var = "APP_ENV"
  /\ "APP_ENV" \in DOMAIN environ
  /\ last.value = environ["APP_ENV"]
  /\ DictGet(environ, "EV_ENV", "dev") # last.value

EnvOps == {"set_env_varname", "get_env_varname", "get_env"}

\* The part of C12 about the calls themselves: a set_env_varname,
\* get_env_varname or get_env call changes neither the cache nor any object.
EnvCallsFrame ==
  [][(last' # last /\ last'.op \in EnvOps)
       => (_configs' = _configs /\ heap' = heap)]_vars

\* C12: a set_env_varname, get_env_varname or get_env call changes neither
\* the cache nor any cached object, and a get_config call after it that
\* resolves to a key already cached returns the object cached for that key.
C12_EnvCallsLeaveCache ==
  [][/\ (last' # last /\ last'.op \in EnvOps)
         => (_configs' = _configs /\ heap' = heap)
     /\ (last.op \in EnvOps /\ GetConfigStep /\ last'.key \in DOMAIN _configs)
         => (last'.status = "ok" /\ last'.ret = _configs[last'.key])]_vars

\* C13: get_config calls that returned and resolved to pairs differing in a
\* component returned different objects, different keys of the cache hold
\* different objects, and a get_config call leaves the entry of every key
\* other than its own, and every object built before, as it was.
C13_DistinctKeysDistinctEntries ==
  /\ [](\A p \in returned, q \in returned : p[1] # q[1] => p[2] # q[2])
  /\ [](\A k \in DOMAIN _configs, j \in DOMAIN _configs :
          k # j => _configs[k] # _configs[j])
  /\ [][GetConfigStep
          => /\ \A k \in DOMAIN _configs \ {last'.key} :
                  k \in DOMAIN _configs' /\ _configs'[k] = _configs[k]
             /\ \A i \in 1..Len(heap) : heap'[i] = heap[i]]_vars

\* C13 witness: (a.json, b.json) and (a.json, config_private.json) are both
\* cached, the latter by the last call.
C13_Witness ==
  /\ last.op = "get_config"
  /\ last.status = "ok"
  /\ last.key = <<"a.json", "config_private.json">>
  /\ <<"a.json", "b.json">> \in DOMAIN _configs
  /\ _configs[<<"a.json", "b.json">>] # last.ret

\* The file holds a JSON object
GoodFile(f) == f \in DOMAIN files /\ IsMapping(files[f])

\* C14: the cache is empty at the start; no step removes a key from it; and
\* a key enters it only in a get_config call that resolves to that key,
\* opens its public and its private file, both holding an object, and
\* returns.
C14_CachedKeysOnlyGrow ==
  /\ DOMAIN _configs = {}
  /\ [][/\ DOMAIN _configs \subseteq DOMAIN _configs'
        /\ \A k \in DOMAIN _configs' \ DOMAIN _configs :
             /\ GetConfigStep
             /\ last'.key = k
             /\ last'.status = "ok"
             /\ last'.opened = <<k[1], k[2]>>
             /\ GoodFile(k[1]) /\ GoodFile(k[2])]_vars

\* C14 witness: two keys are cached and the last call, for a third key,
\* failed.
C14_Witness ==
  /\ Cardinality(DOMAIN _configs) = 2
  /\ last.op = "get_config"
  /\ last.status \in Errors
  /\ last.key \notin DOMAIN _configs

\* Object id holds the whole merge of the two files of key
Full(id, key) ==
  /\ GoodFile(key[1]) /\ GoodFile(key[2])
  /\ IsDeepMerge(files[key[1]].val, files[key[2]].val, heap[id])

\* The object of the last "_configs[key] = config" for key k
RECURSIVE LastStored(_, _)
LastStored(st, k) ==
  IF st[Len(st)][1] = k THEN st[Len(st)][2]
  ELSE LastStored(SubSeq(st, 1, Len(st) - 1), k)

\* C15: with threads inside get_config at the same time, under every
\* interleaving: every object in the cache holds the whole merge of its
\* key's files; so does every object a call returned; the object a thread
\* is building is no other thread's and is not in the cache; two calls for
\* one key that both returned got objects of equal content; and when all
\* calls are over the cache holds, for each key, the object stored last.
C15_OnlyWholeObjectsPublished ==
  /\ \A k \in DOMAIN _configs : Full(_configs[k], k)
  /\ \A t \in Threads :
       /\ (Local(t).pc = "done" /\ Local(t).status = "ok")
           => Full(Local(t).config, Local(t).key)
       /\ Local(t).pc \in {"load1", "load2"}
           => /\ \A k \in DOMAIN _configs : _configs[k] # Local(t).self
              /\ \A u \in Threads \ {t} : Local(u).config # Local(t).self
       /\ \A u \in Threads \ {t} :
            /\ Local(t).self # 0 => Local(u).self # Local(t).self
            /\ (Local(t).pc = "done" /\ Local(t).status = "ok"
                /\ Local(u).pc = "done" /\ Local(u).status = "ok"
                /\ Local(t).key = Local(u).key)
               => heap[Local(t).config] = heap[Local(u).config]
  /\ (\A t \in Threads : Local(t).pc = "done")
      => \A k \in DOMAIN _configs : _configs[k] = LastStored(thr.stored, k)

\* C15 witness: two threads both missed on one key and returned two
\* objects with the scenario's merged content; the cache holds the one
\* stored last.
C15_Witness ==
  \E t \in Threads, u \in Threads :
    /\ t # u
    /\ Local(t).pc = "done" /\ Local(t).status = "ok"
    /\ Local(u).pc = "done" /\ Local(u).status = "ok"
    /\ Local(t).key = Local(u).key
    /\ Local(t).config # Local(u).config
    /\ heap[Local(t).config] = MergedDoc.val
    /\ Len(thr.stored) = 2
    /\ _configs[Local(t).key] = thr.stored[2][2]

\* C16: a merge of a source into a target that shared no dict with it
\* leaves the source's dict, and every dict nested in it, with the keys and
\* values it had.
C16_SourceUnchanged ==
  (ref.done /\ Reach(ref.before, ref.d1) \cap Reach(ref.before, ref.d2) = {})
    => /\ \A a \in Reach(ref.before, ref.d2) : ref.mem[a] = ref.before[a]
       /\ Deref(ref.mem, ref.d2) = mrg.d2

\* C16 witness: the merge recursed into a dict of the target and bound a
\* dict of the source into it, so that target and source now share a dict.
C16_Witness ==
  /\ ref.done
  /\ \E k \in DOMAIN mrg.d1 \cap DOMAIN mrg.d2 :
       /\ IsMapping(mrg.d1[k]) /\ IsMapping(mrg.d2[k])
       /\ mrg.d1[k].val # <<>>
  /\ Reach(ref.mem, ref.d1) \cap Reach(ref.before, ref.d2) # {}
  /\ Deref(ref.mem, ref.d1) = _merge_dicts(mrg.d1, mrg.d2)

\* C17: a get_config call with public_file supplied has the key
\* (public_file, private_file or "config_private.json") and opens files of
\* that key only, whatever the env argument, the setting and the variables.
C17_PublicFileFixesKey ==
  (last.op = "get_config" /\ last.args[2] # PyNone)
    => /\ last.key = <<last.args[2].val,
                       IF last.args[3] # PyNone THEN last.args[3].val
                       ELSE "config_private.json">>
       /\ \A i \in DOMAIN last.opened : last.opened[i] \in {last.key[1], last.key[2]}

====
